---- MODULE Spec2Model ----
(***************************************************************************)
(* Model of the Telugu byte-level BPE tokenizer (src/src/bpe_tokenizer.py): *)
(* the seed vocabulary, training (fit), encode, decode and load.            *)
(* Text is a sequence of Unicode code points, bytes are 0..255, a token id  *)
(* is a natural number and a vocabulary is a Python dict: a function from   *)
(* ids to byte sequences together with its insertion (iteration) order.     *)
(***************************************************************************)
EXTENDS Integers, Sequences, FiniteSets, TLC

----------------------------------------------------------------------------
(* Sequence helpers *)

(* concatenation of s[lo..hi], by halving (keeps the recursion shallow) *)
RECURSIVE FlattenRange(_, _, _)
FlattenRange(ss, lo, hi) ==
  IF lo > hi THEN << >>
  ELSE IF lo = hi THEN ss[lo]
  ELSE LET mid == (lo + hi) \div 2
       IN  FlattenRange(ss, lo, mid) \o FlattenRange(ss, mid + 1, hi)

Max2(a, b) == IF a >= b THEN a ELSE b

----------------------------------------------------------------------------
(* str.encode('utf-8') and bytes.decode('utf-8'), strict *)

Utf8Char(cp) ==
  IF cp < 128 THEN << cp >>
  ELSE IF cp < 2048 THEN << 192 + (cp \div 64), 128 + (cp % 64) >>
  ELSE IF cp < 65536
       THEN << 224 + (cp \div 4096), 128 + ((cp \div 64) % 64), 128 + (cp % 64) >>
  ELSE << 240 + (cp \div 262144), 128 + ((cp \div 4096) % 64),
          128 + ((cp \div 64) % 64), 128 + (cp % 64) >>

Utf8Encode(text) == FlattenRange([k \in 1..Len(text) |-> Utf8Char(text[k])], 1, Len(text))

IsCont(b) == b >= 128 /\ b < 192

(* the code point and length of the UTF-8 sequence starting at bs[i], or    *)
(* length 0 when the bytes there are not a valid sequence                   *)
Utf8At(bs, i) ==
  LET n  == Len(bs)
      b0 == bs[i]
      c(k) == bs[i + k] - 128
  IN  IF b0 < 128 THEN [cp |-> b0, len |-> 1]
      ELSE IF b0 >= 194 /\ b0 < 224 /\ i + 1 <= n /\ IsCont(bs[i + 1])
           THEN [cp |-> (b0 - 192) * 64 + c(1), len |-> 2]
      ELSE IF b0 >= 224 /\ b0 < 240 /\ i + 2 <= n /\ IsCont(bs[i + 1]) /\ IsCont(bs[i + 2])
              /\ (b0 - 224) * 4096 + c(1) * 64 + c(2) >= 2048
              /\ ~ ((b0 - 224) * 4096 + c(1) * 64 + c(2) \in 55296..57343)
           THEN [cp |-> (b0 - 224) * 4096 + c(1) * 64 + c(2), len |-> 3]
      ELSE IF b0 >= 240 /\ b0 < 245 /\ i + 3 <= n
              /\ IsCont(bs[i + 1]) /\ IsCont(bs[i + 2]) /\ IsCont(bs[i + 3])
              /\ (b0 - 240) * 262144 + c(1) * 4096 + c(2) * 64 + c(3) \in 65536..1114111
           THEN [cp |-> (b0 - 240) * 262144 + c(1) * 4096 + c(2) * 64 + c(3), len |-> 4]
      ELSE [cp |-> 0, len |-> 0]

RECURSIVE Utf8DecodeFrom(_, _)
Utf8DecodeFrom(bs, i) ==
  IF i > Len(bs) THEN [ok |-> TRUE, text |-> << >>]
  ELSE LET u == Utf8At(bs, i)
       IN  IF u.len = 0 THEN [ok |-> FALSE, text |-> << >>]
           ELSE LET rest == Utf8DecodeFrom(bs, i + u.len)
                IN  [ok |-> rest.ok, text |-> IF rest.ok THEN << u.cp >> \o rest.text ELSE << >>]

(* [ok |-> TRUE, text |-> t] or, for a UnicodeDecodeError, ok = FALSE *)
Utf8Decode(bs) == Utf8DecodeFrom(bs, 1)

----------------------------------------------------------------------------
(* get_telugu_char_info: the Telugu block ranges and their descriptions     *)
(* (the sample letters of the descriptions are written as code points)      *)

get_telugu_char_info ==
  << [start |-> 3072, end |-> 3075, desc |-> "Various forms of Telugu anusvara and visarga"],
     [start |-> 3077, end |-> 3092, desc |-> "Telugu vowels (U+0C05 to U+0C14)"],
     [start |-> 3093, end |-> 3129, desc |-> "Telugu consonants (U+0C15 to U+0C39)"],
     [start |-> 3133, end |-> 3140, desc |-> "Telugu vowel signs (U+0C3D to U+0C44)"],
     [start |-> 3142, end |-> 3144, desc |-> "Telugu vowel signs (U+0C46 to U+0C48)"],
     [start |-> 3146, end |-> 3149, desc |-> "Telugu vowel signs and virama (U+0C4A to U+0C4D)"],
     [start |-> 3157, end |-> 3158, desc |-> "Telugu length marks"],
     [start |-> 3160, end |-> 3162, desc |-> "Additional Telugu consonants"],
     [start |-> 3168, end |-> 3171, desc |-> "Telugu vocalic letters"],
     [start |-> 3174, end |-> 3183, desc |-> "Telugu digits (U+0C66 to U+0C6F)"],
     [start |-> 3192, end |-> 3199, desc |-> "Telugu fraction symbols"] >>

(* the 'type' strings of the seed vocabulary in Python's string order, the  *)
(* order save_base_vocab sorts by                                           *)
TypeOrder ==
  << "ASCII", "Additional Telugu consonants", "Extended ASCII", "Ligature",
     "Other Telugu Character", "Telugu consonants (U+0C15 to U+0C39)",
     "Telugu digits (U+0C66 to U+0C6F)", "Telugu fraction symbols",
     "Telugu length marks", "Telugu vocalic letters",
     "Telugu vowel signs (U+0C3D to U+0C44)", "Telugu vowel signs (U+0C46 to U+0C48)",
     "Telugu vowel signs and virama (U+0C4A to U+0C4D)",
     "Telugu vowels (U+0C05 to U+0C14)", "Various forms of Telugu anusvara and visarga" >>

TypeRank(t) == CHOOSE r \in 1..Len(TypeOrder) : TypeOrder[r] = t

(* the first range of get_telugu_char_info that holds code point i *)
TeluguType(i) ==
  LET hits == { r \in 1..Len(get_telugu_char_info) :
                  get_telugu_char_info[r].start <= i /\ i <= get_telugu_char_info[r].end }
  IN  IF hits = {} THEN "Other Telugu Character"
      ELSE get_telugu_char_info[CHOOSE r \in hits : \A q \in hits : r <= q].desc

Virama == 3149

(* The source lists 36 consonants and 20 vowel signs, which seed 2015       *)
(* ligature tokens.  The model keeps the entries KA, SSA and KSSA of        *)
(* consonants and '', sign AA and virama of vowel_signs, in source order:   *)
(* they cover a ligature equal to a single letter, ligatures of two and     *)
(* more letters, and the one combination (KA + virama + SSA) that the       *)
(* existing_tokens test skips.                                              *)
consonants == << <<3093>>, <<3127>>, <<3093, 3149, 3127>> >>

vowel_signs == << << >>, <<3134>>, <<3149>> >>

(* every consonant + virama + consonant, in the order of the source list *)
valid_consonant_combinations ==
  [ k \in 1..(Len(consonants) * Len(consonants)) |->
      consonants[((k - 1) \div Len(consonants)) + 1] \o << Virama >>
        \o consonants[((k - 1) % Len(consonants)) + 1] ]

(* consonant + vowel sign for every consonant and vowel sign, consonant-major *)
LigatureCandidates ==
  [ k \in 1..(Len(consonants) * Len(vowel_signs)) |->
      consonants[((k - 1) \div Len(vowel_signs)) + 1]
        \o vowel_signs[((k - 1) % Len(vowel_signs)) + 1] ]

(* the loops over both lists: a candidate is added unless it is already in  *)
(* existing_tokens, the set of the ligature texts added so far              *)
RECURSIVE AddLigatures(_, _, _, _)
AddLigatures(cands, lo, hi, existing_tokens) ==
  IF lo > hi THEN << >>
  ELSE IF lo = hi
       THEN IF cands[lo] \in existing_tokens THEN << >>
            ELSE << [bytes |-> Utf8Encode(cands[lo]), type |-> "Ligature"] >>
  ELSE LET mid == (lo + hi) \div 2
       IN  AddLigatures(cands, lo, mid, existing_tokens)
             \o AddLigatures(cands, mid + 1, hi,
                             existing_tokens \cup { cands[j] : j \in lo..mid })

(* create_base_vocab: entry k of the sequence is token id k - 1 *)
create_base_vocab ==
  LET ascii    == [ k \in 1..128 |-> [bytes |-> << k - 1 >>, type |-> "ASCII"] ]
      extended == [ k \in 1..128 |-> [bytes |-> << 127 + k >>, type |-> "Extended ASCII"] ]
      telugu   == [ k \in 1..128 |->
                      [bytes |-> Utf8Char(3071 + k), type |-> TeluguType(3071 + k)] ]
      cands    == LigatureCandidates \o valid_consonant_combinations
  IN  ascii \o extended \o telugu \o AddLigatures(cands, 1, Len(cands), {})

(* save_base_vocab: the ids in the order of the file, sorted by (type, id) *)
save_base_vocab(base) ==
  LET idseq == [ k \in 1..Len(base) |-> k - 1 ]
      ofType(r) == SelectSeq(idseq, LAMBDA id : TypeRank(base[id + 1].type) = r)
  IN  FlattenRange([ r \in 1..Len(TypeOrder) |-> ofType(r) ], 1, Len(TypeOrder))

(* load_base_vocab of the file save_base_vocab wrote: id -> bytes, the dict *)
(* in the order of the file                                                 *)
load_base_vocab(base) ==
  [ vocab |-> [ id \in 0..(Len(base) - 1) |-> base[id + 1].bytes ],
    keys  |-> save_base_vocab(base) ]

BaseVocab == load_base_vocab(create_base_vocab)

BaseSize == Len(BaseVocab.keys)

----------------------------------------------------------------------------
(* Bounds of the model *)

(* longest corpus handed to fit, in code points *)
MaxCorpusLen == 3
(* longest text handed to encode, in code points *)
MaxEncodeLen == 2
(* how many ids more than the seed vocabulary the target size asks for *)
MaxGrowth == 2
(* longest id sequence handed to decode *)
MaxDecodeLen == 2
(* the chunk size floor of fit (1024 * 64 in the source), scaled to the     *)
(* corpora of the model so that a corpus can span more than one chunk       *)
ChunkFloor == 6
(* os.cpu_count() *)
NumCores == 2
(* longest text whose id sequence is handed to merge, in code points *)
MaxMergeLen == 4

Space == 32

(* code points of the corpora and texts: space, KA and the vowel sign AA *)
Alphabet == { 32, 3093, 3134 }

SeqsUpTo(S, n) == UNION { [1..k -> S] : k \in 0..n }

Corpora == SeqsUpTo(Alphabet, MaxCorpusLen)

Texts == SeqsUpTo(Alphabet, MaxEncodeLen)

----------------------------------------------------------------------------
(* BPETokenizer *)

VARIABLES
  vocab,            \* self.vocab: id -> bytes
  vocab_keys,       \* the iteration order of self.vocab
  merges,           \* self.merges in insertion order: <<[pair, idx], ...>>
  base_vocab_size,  \* self.base_vocab_size
  vocab_size,       \* self.vocab_size, the target size V
  pc,               \* "new", "ready", "fitting", "trained" or "crashed"
  corpus,           \* the text fit was called with
  ids,              \* the id sequence of the training loop
  last,             \* the call that is returning to the caller, and its result
  disk,             \* the persisted vocabulary and merge records, if any
  pool              \* the worker pool of fit: chunks, workers, results

vars == << vocab, vocab_keys, merges, base_vocab_size, vocab_size, pc, corpus, ids,
           last, disk, pool >>

NoCall == [op |-> "none"]

NoFile == [vocab |-> << >>, merges |-> << >>, present |-> FALSE]

(* the processes of Pool(num_cores) *)
Workers == 1..NumCores

(* no pool: no chunks, every worker idle, nothing done                      *)
(*   chunks   the chunks of the imap call, in index order                   *)
(*   next     the index of the first chunk no worker has taken              *)
(*   running  worker -> the index of the chunk it works on, 0 when idle     *)
(*   done     index -> the ids a worker returned for that chunk             *)
(*   arrived  the indices in the order their results arrived                *)
(*   yielded  the indices in the order imap yielded their results           *)
NoPool == [chunks |-> << >>, next |-> 1, running |-> [w \in Workers |-> 0],
           done |-> << >>, arrived |-> << >>, yielded |-> << >>]

HasKey(d, k) == k \in DOMAIN d

MergePairs(ms) == { ms[k].pair : k \in 1..Len(ms) }

MergeOf(ms, pair) == ms[CHOOSE k \in 1..Len(ms) : ms[k].pair = pair].idx

(* get_stats: the adjacent pairs in the order of their first occurrence     *)
(* (the insertion order of the dict) and the count of each                  *)
PairAt(s, k) == << s[k], s[k + 1] >>

get_stats(s) ==
  LET firsts == { k \in 1..(Len(s) - 1) : \A j \in 1..(k - 1) : PairAt(s, j) # PairAt(s, k) }
      RECURSIVE InOrder(_)
      InOrder(ks) == IF ks = {} THEN << >>
                     ELSE LET m == CHOOSE x \in ks : \A y \in ks : x <= y
                          IN  << PairAt(s, m) >> \o InOrder(ks \ {m})
  IN  [ keys  |-> InOrder(firsts),
        count |-> [ p \in { PairAt(s, k) : k \in 1..(Len(s) - 1) } |->
                      Cardinality({ k \in 1..(Len(s) - 1) : PairAt(s, k) = p }) ] ]

(* MaxPair with ties going to the last key of largest count *)
MaxPairLast(stats) ==
  LET best == CHOOSE k \in 1..Len(stats.keys) :
                /\ \A j \in 1..Len(stats.keys) :
                     stats.count[stats.keys[j]] <= stats.count[stats.keys[k]]
                /\ \A j \in (k + 1)..Len(stats.keys) :
                     stats.count[stats.keys[j]] < stats.count[stats.keys[k]]
  IN  stats.keys[best]

(* max(stats, key=stats.get): the first key, in dict order, of largest count *)
MaxPair(stats) ==
  LET best == CHOOSE k \in 1..Len(stats.keys) :
                /\ \A j \in 1..Len(stats.keys) :
                     stats.count[stats.keys[j]] <= stats.count[stats.keys[k]]
                /\ \A j \in 1..(k - 1) :
                     stats.count[stats.keys[j]] < stats.count[stats.keys[k]]
  IN  stats.keys[best]

(* a replacement loop that resumes at i + 1 after a match *)
RECURSIVE ReplaceOverlapping(_, _, _, _)
ReplaceOverlapping(s, pair, new, i) ==
  IF i > Len(s) THEN << >>
  ELSE IF i < Len(s) /\ s[i] = pair[1] /\ s[i + 1] = pair[2]
       THEN << new >> \o ReplaceOverlapping(s, pair, new, i + 1)
       ELSE << s[i] >> \o ReplaceOverlapping(s, pair, new, i + 1)

(* the replacement loop of merge: one left-to-right pass from position i *)
RECURSIVE Replace(_, _, _, _)
Replace(s, pair, new, i) ==
  IF i > Len(s) THEN << >>
  ELSE IF i < Len(s) /\ s[i] = pair[1] /\ s[i + 1] = pair[2]
       THEN << new >> \o Replace(s, pair, new, i + 2)
       ELSE << s[i] >> \o Replace(s, pair, new, i + 1)

(* the first id, in dict order, whose bytes are bs; -1 when there is none *)
FirstWithBytes(v, keys, bs) ==
  LET hits == { k \in 1..Len(keys) : v[keys[k]] = bs }
  IN  IF hits = {} THEN -1 ELSE keys[CHOOSE k \in hits : \A q \in hits : k <= q]

(* merge(ids, pair, idx) *)
merge(v, keys, s, pair, idx) ==
  LET merged_token == v[pair[1]] \o v[pair[2]]
      existing_id  == FirstWithBytes(v, keys, merged_token)
  IN  IF existing_id # -1 THEN Replace(s, pair, existing_id, 1)
      ELSE Replace(s, pair, idx, 1)

(* byte_to_token of fit: a later entry of the dict replaces an earlier one  *)
(* with the same bytes; -1 when no token has the bytes                      *)
byte_to_token(v, keys, bs) ==
  LET hits == { k \in 1..Len(keys) : v[keys[k]] = bs }
  IN  IF hits = {} THEN -1 ELSE keys[CHOOSE k \in hits : \A q \in hits : q <= k]

(* a _process_chunk that looks up the lengths 3 and 2 only *)
RECURSIVE ProcessFromNoSingle(_, _, _, _)
ProcessFromNoSingle(v, keys, chunk, j) ==
  IF j > Len(chunk) THEN << >>
  ELSE IF chunk[j] = Space THEN << Space >> \o ProcessFromNoSingle(v, keys, chunk, j + 1)
  ELSE LET tok(length) == IF j + length - 1 <= Len(chunk)
                          THEN byte_to_token(v, keys, SubSeq(chunk, j, j + length - 1))
                          ELSE -1
       IN  IF tok(3) # -1 THEN << tok(3) >> \o ProcessFromNoSingle(v, keys, chunk, j + 3)
           ELSE IF tok(2) # -1 THEN << tok(2) >> \o ProcessFromNoSingle(v, keys, chunk, j + 2)
           ELSE ProcessFromNoSingle(v, keys, chunk, j + 1)

(* _process_chunk from position j of the chunk *)
RECURSIVE ProcessFrom(_, _, _, _)
ProcessFrom(v, keys, chunk, j) ==
  IF j > Len(chunk) THEN << >>
  ELSE IF chunk[j] = Space THEN << Space >> \o ProcessFrom(v, keys, chunk, j + 1)
  ELSE LET tok(length) == IF j + length - 1 <= Len(chunk)
                          THEN byte_to_token(v, keys, SubSeq(chunk, j, j + length - 1))
                          ELSE -1
       IN  IF tok(3) # -1 THEN << tok(3) >> \o ProcessFrom(v, keys, chunk, j + 3)
           ELSE IF tok(2) # -1 THEN << tok(2) >> \o ProcessFrom(v, keys, chunk, j + 2)
           ELSE IF tok(1) # -1 THEN << tok(1) >> \o ProcessFrom(v, keys, chunk, j + 1)
           ELSE ProcessFrom(v, keys, chunk, j + 1)

_process_chunk(v, keys, chunk) == ProcessFrom(v, keys, chunk, 1)

(* the chunks of fit: slices of chunk_size bytes *)
Chunks(bs) ==
  LET chunk_size == Max2(ChunkFloor, Len(bs) \div (NumCores * 4))
      n == (Len(bs) + chunk_size - 1) \div chunk_size
  IN  [ c \in 1..n |->
          SubSeq(bs, (c - 1) * chunk_size + 1,
                 IF c * chunk_size < Len(bs) THEN c * chunk_size ELSE Len(bs)) ]

(* pool.imap yields the chunk results in chunk order; fit extends ids by each *)
Pretokenize(v, keys, bs) ==
  LET chunks == Chunks(bs)
  IN  FlattenRange([ c \in 1..Len(chunks) |-> _process_chunk(v, keys, chunks[c]) ],
                   1, Len(chunks))

(* the token encode takes at byte i (1-based): the first entry of the vocab *)
(* sorted by length, longest first (a stable sort), whose bytes are at i;   *)
(* position 0 when nothing matches                                          *)
LongestMatch(v, keys, bs, i) ==
  LET fits(k) == /\ i + Len(v[keys[k]]) - 1 <= Len(bs)
                 /\ \A m \in 1..Len(v[keys[k]]) : bs[i + m - 1] = v[keys[k]][m]
      hits == { k \in 1..Len(keys) : fits(k) }
  IN  IF hits = {} THEN 0
      ELSE CHOOSE k \in hits :
             \A q \in hits : \/ Len(v[keys[q]]) < Len(v[keys[k]])
                             \/ (Len(v[keys[q]]) = Len(v[keys[k]]) /\ k <= q)

(* EncodeFrom with the space branch advancing without appending the token *)
RECURSIVE EncodeFromDropSpace(_, _, _, _)
EncodeFromDropSpace(v, keys, bs, i) ==
  IF i > Len(bs) THEN << >>
  ELSE IF bs[i] = Space THEN EncodeFromDropSpace(v, keys, bs, i + 1)
  ELSE LET k == LongestMatch(v, keys, bs, i)
       IN  IF k # 0 /\ Len(v[keys[k]]) > 0
           THEN << keys[k] >> \o EncodeFromDropSpace(v, keys, bs, i + Len(v[keys[k]]))
           ELSE LET single == FirstWithBytes(v, keys, << bs[i] >>)
                IN  (IF single # -1 THEN << single >> ELSE << >>)
                      \o EncodeFromDropSpace(v, keys, bs, i + 1)

(* encode from byte i *)
RECURSIVE EncodeFrom(_, _, _, _)
EncodeFrom(v, keys, bs, i) ==
  IF i > Len(bs) THEN << >>
  ELSE IF bs[i] = Space THEN << Space >> \o EncodeFrom(v, keys, bs, i + 1)
  ELSE LET k == LongestMatch(v, keys, bs, i)
       IN  IF k # 0 /\ Len(v[keys[k]]) > 0
           THEN << keys[k] >> \o EncodeFrom(v, keys, bs, i + Len(v[keys[k]]))
           ELSE LET single == FirstWithBytes(v, keys, << bs[i] >>)
                IN  (IF single # -1 THEN << single >> ELSE << >>)
                      \o EncodeFrom(v, keys, bs, i + 1)

encode(v, keys, text) == EncodeFrom(v, keys, Utf8Encode(text), 1)

(* decode with ids that are no key of the vocab skipped (vocab.get) *)
decodeSkipUnknown(v, tokens) ==
  LET known == SelectSeq(tokens, LAMBDA t : HasKey(v, t))
      bytes_tokens == FlattenRange([ k \in 1..Len(known) |-> v[known[k]] ], 1, Len(known))
      d == Utf8Decode(bytes_tokens)
  IN  IF d.ok THEN [status |-> "ok", text |-> d.text]
      ELSE [status |-> "UnicodeDecodeError", text |-> << >>]

(* decode: KeyError for an id that is no key of the vocab, else the joined  *)
(* bytes decoded as UTF-8                                                   *)
decode(v, tokens) ==
  IF \E k \in 1..Len(tokens) : ~ HasKey(v, tokens[k])
  THEN [status |-> "KeyError", text |-> << >>]
  ELSE LET bytes_tokens == FlattenRange([ k \in 1..Len(tokens) |-> v[tokens[k]] ],
                                        1, Len(tokens))
           d == Utf8Decode(bytes_tokens)
       IN  IF d.ok THEN [status |-> "ok", text |-> d.text]
           ELSE [status |-> "UnicodeDecodeError", text |-> << >>]

----------------------------------------------------------------------------
(* The constructor without saved files: the seed vocabulary is created,     *)
(* saved and loaded; vocab_size is the caller's                             *)

TargetSizes == (BaseSize - 1)..(BaseSize + MaxGrowth)

Init ==
  /\ vocab = BaseVocab.vocab
  /\ vocab_keys = BaseVocab.keys
  /\ base_vocab_size = BaseSize
  /\ merges = << >>
  /\ vocab_size \in TargetSizes
  /\ pc = "ready"
  /\ corpus = << >>
  /\ ids = << >>
  /\ last = NoCall
  /\ disk = NoFile
  /\ pool = NoPool

(* fit up to the training loop: the corpus bytes, chunked and pre-tokenized *)
FitStart(text) ==
  /\ pc = "ready"
  /\ last = NoCall
  /\ pc' = "fitting"
  /\ corpus' = text
  /\ ids' = Pretokenize(vocab, vocab_keys, Utf8Encode(text))
  /\ UNCHANGED << vocab, vocab_keys, merges, base_vocab_size, vocab_size, last, disk, pool >>

(* the loop condition with <= for < *)
BelowTargetInclusive(size, target_vocab_size) == size <= target_vocab_size

(* the condition of the training loop: len(self.vocab) < target_vocab_size *)
BelowTarget(size, target_vocab_size) == size < target_vocab_size

(* AddToken with the two parents concatenated the other way round *)
AddTokenSwapped(v, pair, idx) ==
  [ id \in (DOMAIN v) \cup {idx} |-> IF id = idx THEN v[pair[2]] \o v[pair[1]] ELSE v[id] ]

(* self.vocab[idx] = self.vocab[pair[0]] + self.vocab[pair[1]] *)
AddToken(v, pair, idx) ==
  [ id \in (DOMAIN v) \cup {idx} |-> IF id = idx THEN v[pair[1]] \o v[pair[2]] ELSE v[id] ]

(* an id allocation that takes the largest id in use *)
NewIdLast(keys) == Len(keys) - 1

(* idx = len(self.vocab) *)
NewId(keys) == Len(keys)

(* one iteration of the training loop *)
MergeStep ==
  /\ pc = "fitting"
  /\ BelowTarget(Len(vocab_keys), vocab_size)
  /\ Len(ids) >= 2
  /\ LET stats == get_stats(ids)
         pair  == MaxPair(stats)
         idx   == NewId(vocab_keys)
         fresh == pair \notin MergePairs(merges)
         vocab1 == IF fresh THEN AddToken(vocab, pair, idx) ELSE vocab
         keys1 == IF fresh /\ ~ HasKey(vocab, idx) THEN Append(vocab_keys, idx) ELSE vocab_keys
     IN  /\ ids' = merge(vocab, vocab_keys, ids, pair, idx)
         /\ merges' = IF fresh THEN Append(merges, [pair |-> pair, idx |-> idx]) ELSE merges
         /\ vocab' = vocab1
         /\ vocab_keys' = keys1
            \* the progress print reads self.vocab[idx]: a KeyError ends fit
         /\ pc' = IF Len(keys1) % 100 = 0 /\ ~ HasKey(vocab1, idx) THEN "crashed" ELSE "fitting"
  /\ UNCHANGED << base_vocab_size, vocab_size, corpus, last, disk, pool >>

(* the loop ends and fit prints the final statistics, which divides by len(ids) *)
FitEnd ==
  /\ pc = "fitting"
  /\ (~ BelowTarget(Len(vocab_keys), vocab_size) \/ Len(ids) < 2)
  /\ pc' = IF Len(ids) = 0 THEN "crashed" ELSE "trained"
  /\ UNCHANGED << vocab, vocab_keys, merges, base_vocab_size, vocab_size, corpus, ids,
                  last, disk, pool >>

(* the tokenizer is constructed or trained and no call is under way *)
Usable == pc \in { "ready", "trained" } /\ last = NoCall

Encode(text) ==
  /\ Usable
  /\ last' = [op |-> "encode", text |-> text, tokens |-> encode(vocab, vocab_keys, text)]
  /\ UNCHANGED << vocab, vocab_keys, merges, base_vocab_size, vocab_size, pc, corpus, ids,
                  disk, pool >>

(* the ids decode is called with: the space, a byte that is no UTF-8 text   *)
(* alone, the largest valid id and the first invalid one                    *)
DecodeIds == { 32, 224, Len(vocab_keys) - 1, Len(vocab_keys) }

Decode(tokens) ==
  /\ Usable
  /\ LET d == decode(vocab, tokens)
     IN  last' = [op |-> "decode", tokens |-> tokens, status |-> d.status, text |-> d.text]
  /\ UNCHANGED << vocab, vocab_keys, merges, base_vocab_size, vocab_size, pc, corpus, ids,
                  disk, pool >>

(* decode of what encode returned (__main__, app.tokenize) *)
DecodeEncoded ==
  /\ pc \in { "ready", "trained" }
  /\ last.op = "encode"
  /\ LET d == decode(vocab, last.tokens)
     IN  last' = [op |-> "roundtrip", text |-> last.text, tokens |-> last.tokens,
                  status |-> d.status, decoded |-> d.text]
  /\ UNCHANGED << vocab, vocab_keys, merges, base_vocab_size, vocab_size, pc, corpus, ids,
                  disk, pool >>

(* the caller takes the result *)
Return ==
  /\ last # NoCall
  /\ last' = NoCall
  /\ UNCHANGED << vocab, vocab_keys, merges, base_vocab_size, vocab_size, pc, corpus, ids,
                  disk, pool >>

Next ==
  \/ \E text \in Corpora : FitStart(text)
  \/ MergeStep
  \/ FitEnd
  \/ \E text \in Texts \cup {corpus} : Encode(text)
  \/ \E tokens \in SeqsUpTo(DecodeIds, MaxDecodeLen) : Decode(tokens)
  \/ DecodeEncoded
  \/ Return

Spec == Init /\ [][Next]_vars

----------------------------------------------------------------------------
(* Scenario 1: the constructor finds a seed vocabulary file that holds the  *)
(* 256 single-byte tokens, vocab_size is 258, the corpus is                 *)
(* "aaab aaab aaab"                                                         *)

ByteVocab == [ b \in 0..255 |-> << b >> ]

ScenarioCorpus == << 97, 97, 97, 98, 32, 97, 97, 97, 98, 32, 97, 97, 97, 98 >>

ScenarioInit ==
  /\ vocab = ByteVocab
  /\ vocab_keys = [ k \in 1..256 |-> k - 1 ]
  /\ base_vocab_size = 256
  /\ merges = << >>
  /\ vocab_size = 258
  /\ pc = "ready"
  /\ corpus = << >>
  /\ ids = << >>
  /\ last = NoCall
  /\ disk = NoFile
  /\ pool = NoPool

(* the texts encode is called with in the scenario: over space, a and b *)
ScenarioTexts == SeqsUpTo({ 32, 97, 98 }, MaxEncodeLen + 1)

ScenarioNext ==
  \/ FitStart(ScenarioCorpus)
  \/ MergeStep
  \/ FitEnd
  \/ \E text \in ScenarioTexts \cup {corpus} : Encode(text)
  \/ \E tokens \in SeqsUpTo(DecodeIds, MaxDecodeLen) : Decode(tokens)
  \/ DecodeEncoded
  \/ Return

SpecScenario1 == ScenarioInit /\ [][ScenarioNext]_vars

----------------------------------------------------------------------------
(* save and load *)

(* str(n) as its decimal digits, and int(s) *)
RECURSIVE IntToStr(_)
IntToStr(n) == IF n < 10 THEN << n >> ELSE Append(IntToStr(n \div 10), n % 10)

RECURSIVE StrToInt(_)
StrToInt(d) == IF Len(d) = 1 THEN d[1]
               ELSE StrToInt(SubSeq(d, 1, Len(d) - 1)) * 10 + d[Len(d)]

(* a dict built by assigning the items of a sequence in order: a repeated   *)
(* key keeps its first place and takes the later value. FirstsIn lists the  *)
(* places where a key comes first, LastPos maps a key to its last place     *)
RECURSIVE FirstsIn(_, _, _, _)
FirstsIn(items, lo, hi, seen) ==
  IF lo > hi THEN << >>
  ELSE IF lo = hi THEN (IF items[lo].key \in seen THEN << >> ELSE << lo >>)
  ELSE LET mid == (lo + hi) \div 2
           left == FirstsIn(items, lo, mid, seen)
       IN  left \o FirstsIn(items, mid + 1, hi,
                            seen \cup { items[left[n]].key : n \in 1..Len(left) })

RECURSIVE LastPos(_, _, _)
LastPos(items, lo, hi) ==
  IF lo = hi THEN (items[lo].key :> lo)
  ELSE LET mid == (lo + hi) \div 2
       IN  LastPos(items, mid + 1, hi) @@ LastPos(items, lo, mid)

DictItems(items) ==
  LET n == Len(items)
      ks == FirstsIn(items, 1, n, {})
      at == IF n = 0 THEN << >> ELSE LastPos(items, 1, n)
  IN  [ ks |-> ks,
        at |-> at,
        lastOf |-> [ k \in { ks[i] : i \in 1..Len(ks) } |-> at[items[k].key] ] ]

(* the save of a tokenizer whose is_base test is <= for < *)
saveBaseInclusive(v, keys, ms, bsize) ==
  LET d == DictItems([ k \in 1..Len(ms) |-> [key |-> ms[k].idx] ])
  IN  [ present |-> TRUE,
        vocab   |-> [ k \in 1..Len(keys) |->
                        [ id |-> IntToStr(keys[k]), bytes |-> v[keys[k]],
                          is_base |-> keys[k] <= bsize ] ],
        merges  |-> [ n \in 1..Len(d.ks) |->
                        [ idx |-> IntToStr(ms[d.ks[n]].idx),
                          token_ids |-> ms[d.lastOf[d.ks[n]]].pair ] ] ]

(* save: the vocabulary record (id, bytes, is_base) in dict order and the   *)
(* merge record keyed by result id, as JSON objects with string keys; the   *)
(* text fields for reading are left out                                     *)
save(v, keys, ms, bsize) ==
  LET d == DictItems([ k \in 1..Len(ms) |-> [key |-> ms[k].idx] ])
  IN  [ present |-> TRUE,
        vocab   |-> [ k \in 1..Len(keys) |->
                        [ id |-> IntToStr(keys[k]), bytes |-> v[keys[k]],
                          is_base |-> keys[k] < bsize ] ],
        merges  |-> [ n \in 1..Len(d.ks) |->
                        [ idx |-> IntToStr(ms[d.ks[n]].idx),
                          token_ids |-> ms[d.lastOf[d.ks[n]]].pair ] ] ]

(* the state load builds from the two records *)
load(file) ==
  LET vd == DictItems([ k \in 1..Len(file.vocab) |-> [key |-> StrToInt(file.vocab[k].id)] ])
      md == DictItems([ k \in 1..Len(file.merges) |-> [key |-> file.merges[k].token_ids] ])
  IN  [ vocab |-> [ id \in DOMAIN vd.at |-> file.vocab[vd.at[id]].bytes ],
        keys  |-> [ n \in 1..Len(vd.ks) |-> StrToInt(file.vocab[vd.ks[n]].id) ],
        base_vocab_size |-> Cardinality({ k \in 1..Len(file.vocab) : file.vocab[k].is_base }),
        merges |-> [ n \in 1..Len(md.ks) |->
                       [ pair |-> file.merges[md.ks[n]].token_ids,
                         idx  |-> StrToInt(file.merges[md.lastOf[md.ks[n]]].idx) ] ] ]

(* save(path) writes the two records *)
Save ==
  /\ Usable
  /\ disk' = save(vocab, vocab_keys, merges, base_vocab_size)
  /\ last' = [op |-> "save"]
  /\ UNCHANGED << vocab, vocab_keys, merges, base_vocab_size, vocab_size, pc, corpus, ids, pool >>

(* load(path), also the constructor when the trained vocabulary file exists *)
Load ==
  /\ disk.present
  /\ pc \in { "new", "ready", "trained" }
  /\ last = NoCall
  /\ LET st == load(disk)
     IN  /\ vocab' = st.vocab
         /\ vocab_keys' = st.keys
         /\ base_vocab_size' = st.base_vocab_size
         /\ merges' = st.merges
         /\ vocab_size' = Len(st.keys)
  /\ pc' = "trained"
  /\ last' = [op |-> "load"]
  /\ UNCHANGED << corpus, ids, disk, pool >>

(* training, save and load: the states save is called in are those the      *)
(* constructor and fit reach                                                *)
PersistNext ==
  \/ \E text \in Corpora : FitStart(text)
  \/ MergeStep
  \/ FitEnd
  \/ Save
  \/ Load
  \/ Return

SpecPersist == Init /\ [][PersistNext]_vars

(* a trained state: the seed vocabulary and the merge (a, a) learned from   *)
(* the corpus "aa"                                                          *)
PersistedGood ==
  save(AddToken(BaseVocab.vocab, << 97, 97 >>, BaseSize), Append(BaseVocab.keys, BaseSize),
       << [pair |-> << 97, 97 >>, idx |-> BaseSize] >>, BaseSize)

(* the same records with the parent ids of the rule replaced *)
WithParents(file, token_ids) ==
  [ file EXCEPT !.merges = [ k \in 1..Len(file.merges) |->
                               [ file.merges[k] EXCEPT !.token_ids = token_ids ] ] ]

(* the files load finds: what save wrote, and records whose rule names a    *)
(* parent id that the vocabulary record does not hold                       *)
PersistedFiles ==
  { PersistedGood,
    WithParents(PersistedGood, << 97, BaseSize + 1 >>),
    WithParents(PersistedGood, << BaseSize + 1, 97 >>) }

(* vocab_size of the constructor call in app.py *)
DefaultVocabSize == 5000

LoadInit ==
  /\ vocab = << >>
  /\ vocab_keys = << >>
  /\ base_vocab_size = 0
  /\ merges = << >>
  /\ vocab_size = DefaultVocabSize
  /\ pc = "new"
  /\ corpus = << >>
  /\ ids = << >>
  /\ last = NoCall
  /\ disk \in PersistedFiles
  /\ pool = NoPool

LoadNext ==
  \/ Load
  \/ \E text \in Texts : Encode(text)
  \/ \E tokens \in SeqsUpTo(DecodeIds, MaxDecodeLen) : Decode(tokens)
  \/ DecodeEncoded
  \/ Return

SpecLoad == LoadInit /\ [][LoadNext]_vars

----------------------------------------------------------------------------
(* the pre-tokenization of fit with the steps of the worker pool *)

(* the corpora of the pool runs: those of training and one of three chunks *)
PoolCorpora == Corpora \cup { ScenarioCorpus }

(* fit up to pool.imap: the corpus bytes are cut into chunks and each chunk *)
(* is a task, with its own copy of byte_to_token                            *)
PoolStart(text) ==
  /\ pc = "ready"
  /\ last = NoCall
  /\ pc' = "tokenizing"
  /\ corpus' = text
  /\ pool' = [ NoPool EXCEPT !.chunks = Chunks(Utf8Encode(text)) ]
  /\ UNCHANGED << vocab, vocab_keys, merges, base_vocab_size, vocab_size, ids, last, disk >>

(* an idle worker takes the next task of the queue *)
WorkerTake(w) ==
  /\ pc = "tokenizing"
  /\ pool.running[w] = 0
  /\ pool.next <= Len(pool.chunks)
  /\ pool' = [ pool EXCEPT !.running[w] = pool.next, !.next = pool.next + 1 ]
  /\ UNCHANGED << vocab, vocab_keys, merges, base_vocab_size, vocab_size, pc, corpus, ids,
                  last, disk >>

(* a worker returns _process_chunk of its chunk *)
WorkerFinish(w) ==
  /\ pc = "tokenizing"
  /\ pool.running[w] # 0
  /\ LET i == pool.running[w]
     IN  pool' = [ pool EXCEPT !.running[w] = 0,
                               !.done = (i :> _process_chunk(vocab, vocab_keys, pool.chunks[i]))
                                        @@ pool.done,
                               !.arrived = Append(pool.arrived, i) ]
  /\ UNCHANGED << vocab, vocab_keys, merges, base_vocab_size, vocab_size, pc, corpus, ids,
                  last, disk >>

(* an iterator that yields the results as they arrive (imap_unordered) *)
imapNextUnordered(p) ==
  IF Len(p.arrived) > Len(p.yielded) THEN p.arrived[Len(p.yielded) + 1] ELSE 0

(* the index pool.imap yields next: the one after the last yielded, once    *)
(* its result has arrived; 0 while it has not                               *)
imapNext(p) ==
  IF Len(p.yielded) + 1 \in DOMAIN p.done THEN Len(p.yielded) + 1 ELSE 0

(* the iterator yields one result to list(...) *)
Yield ==
  /\ pc = "tokenizing"
  /\ imapNext(pool) # 0
  /\ pool' = [ pool EXCEPT !.yielded = Append(pool.yielded, imapNext(pool)) ]
  /\ UNCHANGED << vocab, vocab_keys, merges, base_vocab_size, vocab_size, pc, corpus, ids,
                  last, disk >>

(* chunk_results is complete: ids is extended by each result in turn *)
Combine ==
  /\ pc = "tokenizing"
  /\ Len(pool.yielded) = Len(pool.chunks)
  /\ ids' = FlattenRange([ k \in 1..Len(pool.yielded) |-> pool.done[pool.yielded[k]] ],
                         1, Len(pool.yielded))
  /\ pc' = "fitting"
  /\ UNCHANGED << vocab, vocab_keys, merges, base_vocab_size, vocab_size, corpus, last,
                  disk, pool >>

PoolNext ==
  \/ \E text \in PoolCorpora : PoolStart(text)
  \/ \E w \in Workers : WorkerTake(w)
  \/ \E w \in Workers : WorkerFinish(w)
  \/ Yield
  \/ Combine
  \/ MergeStep
  \/ FitEnd

SpecPool == Init /\ [][PoolNext]_vars

----------------------------------------------------------------------------
(* merge as a function of its arguments: fit has pre-tokenized a corpus and *)
(* merge is called on that sequence with a pair of ids of the alphabet      *)

(* the ids the letters of the alphabet are pre-tokenized to *)
MergeIds ==
  { _process_chunk(BaseVocab.vocab, BaseVocab.keys, Utf8Encode(<< c >>))[1] : c \in Alphabet }

MergeInit ==
  /\ vocab = BaseVocab.vocab
  /\ vocab_keys = BaseVocab.keys
  /\ base_vocab_size = BaseSize
  /\ merges = << >>
  /\ vocab_size = BaseSize + MaxGrowth
  /\ pc = "fitting"
  /\ corpus \in SeqsUpTo(Alphabet, MaxMergeLen)
  /\ ids = Pretokenize(vocab, vocab_keys, Utf8Encode(corpus))
  /\ last = NoCall
  /\ disk = NoFile
  /\ pool = NoPool

(* ids = self.merge(ids, pair, idx) with idx = len(self.vocab), for a pair  *)
(* that need not be the most frequent one                                   *)
MergeCall(pair) ==
  /\ pc = "fitting"
  /\ last = NoCall
  /\ last' = [op |-> "merge", ids |-> ids, pair |-> pair, idx |-> NewId(vocab_keys),
              result |-> merge(vocab, vocab_keys, ids, pair, NewId(vocab_keys))]
  /\ UNCHANGED << vocab, vocab_keys, merges, base_vocab_size, vocab_size, pc, corpus, ids,
                  disk, pool >>

MergeNext ==
  \/ \E pair \in MergeIds \X MergeIds : MergeCall(pair)
  \/ Return

SpecMerge == MergeInit /\ [][MergeNext]_vars

----------------------------------------------------------------------------
(* Properties *)

VocabSize == Cardinality(DOMAIN vocab)

(* C1: whenever decode is applied to what encode returned for a text, in    *)
(* the seed state or after training, it succeeds and returns that text.     *)
C1_RoundTrip ==
  last.op = "roundtrip" => (last.status = "ok" /\ last.decoded = last.text)

(* a round trip after training whose tokens include a learned one *)
C1_Witness ==
  /\ last.op = "roundtrip"
  /\ pc = "trained"
  /\ Len(last.tokens) >= 2
  /\ \E k \in 1..Len(last.tokens) : last.tokens[k] >= base_vocab_size

(* C2: what encode returns holds no adjacent pair that is a key of the      *)
(* merge table (it applied the rules until none was applicable).            *)
C2_NoRuleLeftToApply ==
  last.op = "encode" =>
    \A k \in 1..(Len(last.tokens) - 1) : PairAt(last.tokens, k) \notin MergePairs(merges)

(* C3: after fit, encode of the corpus returns the id sequence the          *)
(* training loop ended with.                                                *)
C3_EncodeReproducesTraining ==
  (pc = "trained" /\ last.op = "encode" /\ last.text = corpus) => last.tokens = ids

(* C4: no two distinct ids of the vocabulary have the same bytes. *)
C4_Dedup ==
  \A i \in DOMAIN vocab : \A j \in DOMAIN vocab : i # j => vocab[i] # vocab[j]

(* C5: a training step whose selected pair concatenates to the bytes of an  *)
(* existing token rewrites the sequence with that token's id, records that  *)
(* id as the rule of the pair and leaves the vocabulary as it was.          *)
C5_ReuseExisting ==
  [][ MergeStep =>
        LET pair == MaxPair(get_stats(ids))
            existing == FirstWithBytes(vocab, vocab_keys, vocab[pair[1]] \o vocab[pair[2]])
        IN  existing # -1 =>
              /\ ids' = Replace(ids, pair, existing, 1)
              /\ pair \in MergePairs(merges') /\ MergeOf(merges', pair) = existing
              /\ vocab' = vocab ]_vars

(* C6 as stated: after fit the vocabulary size is at most V. *)
C6_BoundedGrowth == pc = "trained" => VocabSize <= vocab_size

(* C6 amended: after fit the vocabulary size is at most the larger of V and *)
(* the size of the base vocabulary.                                         *)
C6_BoundedGrowthAmended ==
  pc = "trained" => VocabSize <= Max2(vocab_size, base_vocab_size)

(* fit has grown the vocabulary up to V *)
C6_Witness == pc = "trained" /\ VocabSize = vocab_size /\ VocabSize > base_vocab_size

(* C7: every rule (a, b) -> c of the merge table has c in the vocabulary    *)
(* and bytes(c) = bytes(a) ++ bytes(b).                                     *)
C7_MergeCorrect ==
  \A k \in 1..Len(merges) :
    /\ HasKey(vocab, merges[k].idx)
    /\ vocab[merges[k].idx] = vocab[merges[k].pair[1]] \o vocab[merges[k].pair[2]]

(* two rules learned, the second from a token the first one made *)
C7_Witness ==
  /\ Len(merges) = 2
  /\ merges[2].pair[1] = merges[1].idx
  /\ vocab[merges[2].pair[1]] # vocab[merges[2].pair[2]]

(* C8: in scenario 1 the merges are learned in one order, (97, 97) -> 256   *)
(* and then (256, 97) -> 257, and fit ends with exactly these two.          *)
C8_ScenarioTrace ==
  LET first  == [pair |-> << 97, 97 >>, idx |-> 256]
      second == [pair |-> << 256, 97 >>, idx |-> 257]
  IN  /\ merges \in { << >>, << first >>, << first, second >> }
      /\ pc = "trained" =>
           /\ merges = << first, second >>
           /\ ids = << 257, 98, 32, 257, 98, 32, 257, 98 >>
           /\ VocabSize = 258

C8_Witness == pc = "trained" /\ corpus = ScenarioCorpus /\ Len(merges) = 2

(* C9: a decode call whose ids include one that is no key of the vocabulary *)
(* ends with the KeyError, returns no text and leaves the vocabulary and    *)
(* the merge table as they were.                                            *)
C9_DecodeInvalidId ==
  [][ (last' # last /\ last'.op = "decode"
         /\ \E k \in 1..Len(last'.tokens) : ~ HasKey(vocab, last'.tokens[k]))
      => (/\ last'.status = "KeyError"
          /\ last'.text = << >>
          /\ vocab' = vocab /\ vocab_keys' = vocab_keys /\ merges' = merges) ]_vars

(* a failed decode whose first id is valid and whose second is not *)
C9_Witness ==
  /\ last.op = "decode"
  /\ last.status = "KeyError"
  /\ Len(last.tokens) = 2
  /\ HasKey(vocab, last.tokens[1])
  /\ last.tokens[2] = VocabSize

(* C10: load does not yield a usable tokenizer from records whose rule      *)
(* names a parent id that is not in the vocabulary record.                  *)
C10_LoadValidates ==
  (disk.present /\ pc = "trained") =>
    \A k \in 1..Len(merges) :
      HasKey(vocab, merges[k].pair[1]) /\ HasKey(vocab, merges[k].pair[2])

(* C11: a load of the records save wrote of the present state leaves the    *)
(* id -> bytes vocabulary, the merge table and base_vocab_size as they were *)
C11_PersistRoundTrip ==
  [][ (Load /\ disk = save(vocab, vocab_keys, merges, base_vocab_size))
      => (/\ vocab' = vocab
          /\ merges' = merges
          /\ base_vocab_size' = base_vocab_size) ]_vars

(* a load has returned the state of a training that learned a rule whose    *)
(* bytes an older token has, and a rule after it                            *)
C11_Witness ==
  /\ last.op = "load"
  /\ disk = save(vocab, vocab_keys, merges, base_vocab_size)
  /\ Len(merges) = 2
  /\ FirstWithBytes(vocab, vocab_keys, vocab[merges[1].idx]) # merges[1].idx

(* C12: fit ends normally for every corpus and every V: it is never ended   *)
(* by an exception.                                                         *)
C12_FitEndsNormally == pc # "crashed"

(* C14: the pair a training step merges has the largest number of adjacent  *)
(* occurrences in the training sequence, and among the pairs with that      *)
(* number it is the one whose first occurrence is leftmost.                 *)
C14_MaxPairEarliest ==
  [][ MergeStep =>
        LET count(p) == Cardinality({ k \in 1..(Len(ids) - 1) : PairAt(ids, k) = p })
            first(p) == CHOOSE k \in 1..(Len(ids) - 1) :
                          /\ PairAt(ids, k) = p
                          /\ \A j \in 1..(k - 1) : PairAt(ids, j) # p
            pair == merges'[Len(merges')].pair
        IN  /\ Len(merges') = Len(merges) + 1
            /\ count(pair) >= 1
            /\ \A k \in 1..(Len(ids) - 1) :
                 /\ count(PairAt(ids, k)) <= count(pair)
                 /\ count(PairAt(ids, k)) = count(pair) => first(pair) <= k ]_vars

(* the first step of a training had two pairs with the largest count and    *)
(* merged the one that comes first                                          *)
C14_Witness ==
  /\ pc = "fitting"
  /\ Len(merges) = 1
  /\ LET ids0 == Pretokenize(BaseVocab.vocab, BaseVocab.keys, Utf8Encode(corpus))
         count(p) == Cardinality({ k \in 1..(Len(ids0) - 1) : PairAt(ids0, k) = p })
     IN  /\ PairAt(ids0, 1) = merges[1].pair
         /\ \E k \in 2..(Len(ids0) - 1) :
              /\ PairAt(ids0, k) # merges[1].pair
              /\ count(PairAt(ids0, k)) = count(merges[1].pair)

(* C15: while the merge table is empty, what encode returns for a text is   *)
(* what the pre-tokenizer of training produces for the bytes of that text   *)
(* taken as one chunk.                                                      *)
C15_EncodeIsPretokenizer ==
  (merges = << >> /\ last.op = "encode") =>
    last.tokens = _process_chunk(vocab, vocab_keys, Utf8Encode(last.text))

(* C16: whatever the order in which the workers finish, the sequence the    *)
(* training loop starts with is the concatenation of _process_chunk of the  *)
(* chunks in chunk index order; the steps of the workers change nothing of  *)
(* the tokenizer.                                                           *)
C16_ChunkOrder ==
  [][ /\ Combine =>
           ids' = FlattenRange([ c \in 1..Len(pool.chunks) |->
                                   _process_chunk(vocab, vocab_keys, pool.chunks[c]) ],
                               1, Len(pool.chunks))
      /\ (\E w \in Workers : WorkerTake(w) \/ WorkerFinish(w)) =>
           UNCHANGED << vocab, vocab_keys, merges, base_vocab_size, vocab_size, ids >>
    ]_vars

(* the result of a later chunk arrived before that of the first chunk, the  *)
(* two differ, and the results were combined                                *)
C16_Witness ==
  /\ pc = "fitting"
  /\ merges = << >>
  /\ Len(pool.chunks) >= 2
  /\ pool.arrived[1] # 1
  /\ pool.done[pool.arrived[1]] # pool.done[1]
  /\ ids # << >>

(* C17: the result of merge is its argument with the occurrences of the     *)
(* pair that a left-to-right scan finds (an occurrence that overlaps the    *)
(* match before it is none) each replaced by one id and every other id      *)
(* copied in place, and it holds no adjacent occurrence of the pair.        *)
C17_MergeScan ==
  last.op = "merge" =>
    LET s == last.ids
        n == Len(s)
        occ(k) == k >= 1 /\ k < n /\ PairAt(s, k) = last.pair
        \* the start of the run of occurrences that reaches k
        runStart(k) == CHOOSE j \in 1..k :
                         /\ \A m \in j..k : occ(m)
                         /\ \A i \in 1..(j - 1) : ~ (\A m \in i..k : occ(m))
        matched(k) == occ(k) /\ (k - runStart(k)) % 2 = 0
        expected(X) == FlattenRange([ k \in 1..n |->
                                        IF matched(k) THEN << X >>
                                        ELSE IF matched(k - 1) THEN << >>
                                        ELSE << s[k] >> ], 1, n)
    IN  /\ \E X \in (DOMAIN vocab) \cup { last.idx } : last.result = expected(X)
        /\ \A k \in 1..(Len(last.result) - 1) : PairAt(last.result, k) # last.pair

(* merge of the pair (a, a) on the run a a a returned X a with the new id X *)
C17_Witness ==
  /\ last.op = "merge"
  /\ last.pair = << Space, Space >>
  /\ last.ids = << Space, Space, Space >>
  /\ last.result = << last.idx, Space >>

(* C18: a training step leaves every entry of the vocabulary and every rule *)
(* of the merge table as it was, does not make the vocabulary smaller,      *)
(* gives a new entry an id above all ids in use, and keeps the result ids   *)
(* of the merge table increasing in the order the rules were learned.       *)
C18_AppendOnly ==
  [][ MergeStep =>
        /\ \A id \in DOMAIN vocab : HasKey(vocab', id) /\ vocab'[id] = vocab[id]
        /\ Len(merges') >= Len(merges)
        /\ \A k \in 1..Len(merges) : merges'[k] = merges[k]
        /\ Cardinality(DOMAIN vocab') >= Cardinality(DOMAIN vocab)
        /\ \A id \in (DOMAIN vocab') \ (DOMAIN vocab) : \A j \in DOMAIN vocab : id > j
        /\ \A k \in 1..(Len(merges') - 1) : merges'[k].idx < merges'[k + 1].idx ]_vars

(* a training that took two steps, each with a new entry and a new rule *)
C18_Witness ==
  /\ pc = "fitting"
  /\ Len(merges) = 2
  /\ VocabSize = base_vocab_size + 2
  /\ merges[1].idx = base_vocab_size

(* C19: from the end of pre-tokenization on, and after every training step, *)
(* the bytes of the ids of the training sequence, concatenated, are the     *)
(* UTF-8 bytes of the corpus (the seed vocabulary has a token for each of   *)
(* the 256 bytes), wherever the chunk seams fall.                           *)
C19_BytesPreserved ==
  pc \in { "fitting", "trained", "crashed" } =>
    FlattenRange([ k \in 1..Len(ids) |-> vocab[ids[k]] ], 1, Len(ids)) = Utf8Encode(corpus)

(* a training step was taken on a corpus whose second chunk starts inside   *)
(* a letter                                                                 *)
C19_Witness ==
  /\ pc \in { "fitting", "trained" }
  /\ Len(merges) >= 1
  /\ LET chunks == Chunks(Utf8Encode(corpus))
     IN  Len(chunks) >= 2 /\ IsCont(chunks[2][1])

====
